---- MODULE Spec2Model ----
(***************************************************************************)
(* CAN telemetry layer of the Sally dashboard                              *)
(* (Software/Dashboard/src/can_mod.rs, eco_can.rs).                        *)
(*                                                                         *)
(* The module models the packet catalog, the bincode wire codec            *)
(* (big-endian, fixed-width integers), the state slots, the frame router   *)
(* decode_can_frame and the task can_receive_task.                         *)
(*                                                                         *)
(* TLC integers are 32-bit signed, so u32 field values are sampled below   *)
(* 2^31; i32, u16 and u8 fields cover their full range.                    *)
(***************************************************************************)
EXTENDS Integers, Sequences, FiniteSets, TLC

VARIABLES
    store,      \* the static Mutex-protected slots: slot name -> value
    pc,         \* position of the task
    iter,       \* iterations of the startup loop completed (`for _ in 0..40`)
    tx_data,    \* the task's local transmit buffer `tx_data`
    tx_len,     \* result of the last encode: byte count, or -1 for Err
    sent,       \* frames handed to can.write, oldest first
    rxbuf,      \* the driver's receive buffer, oldest first
    cur,        \* the frame (or bus error) being handled
    drain_i,    \* iterations of the drain loop completed
    package,    \* a generic Mutex<T> handed to the codec: [type, val]
    arrived,    \* history: every item the driver put into rxbuf, in order
    taken,      \* history: number of items the task took out of rxbuf
    last,       \* history: the last routed frame, the store before, the result
    held,       \* the slots whose MutexGuard the task holds
    others,     \* the slots locked by other tasks
    wake,       \* history: the buffer when can.read() last returned
    last_read_ts,   \* can_task: `last_read_ts`
    delta       \* can_task: `delta` of the last frame, in ms

vars == <<store, pc, iter, tx_data, tx_len, sent, rxbuf, cur, drain_i,
          package, arrived, taken, last, held, others, wake, last_read_ts,
          delta>>

\* the variables of the locks, of the wake history and of can_task
aux == <<held, others, wake, last_read_ts, delta>>

----------------------------------------------------------------------------
(* Bounds of the model *)

\* longest payload of a frame handed to the router
MaxPayloadLen == 32
\* number of items the driver delivers in one behaviour of the task
MaxArrivals == 3

----------------------------------------------------------------------------
(* eco_can.rs: relay states, lengths, catalog *)

ALL_RELAY_OFF == 0
CAP_RELAY == 1
RES_RELAY == 2
DSCHRGE_RELAY == 4
MTR_RELAY == 8

\* bitwise OR of single-bit flags that are pairwise distinct
BitOr(flags) ==
    LET RECURSIVE Sum(_)
        Sum(S) == IF S = {} THEN 0
                  ELSE LET x == CHOOSE y \in S : TRUE IN x + Sum(S \ {x})
    IN Sum(flags)

RELAY_STBY == ALL_RELAY_OFF
RELAY_STRTP == BitOr({RES_RELAY, DSCHRGE_RELAY})
RELAY_CHRGE == RES_RELAY
RELAY_RUN == BitOr({CAP_RELAY, DSCHRGE_RELAY, MTR_RELAY})

RelayState == {RELAY_STBY, RELAY_STRTP, RELAY_CHRGE, RELAY_RUN}

FDCAN_RELSTATE_ID == 24     \* 0x018

FDCANLength == {0, 1, 2, 3, 4, 5, 6, 7, 8, 12, 16, 20, 24, 32, 48, 64}

\* integer types of the record fields
u8  == [width |-> 1, signed |-> FALSE]
u16 == [width |-> 2, signed |-> FALSE]
u32 == [width |-> 4, signed |-> FALSE]
i32 == [width |-> 4, signed |-> TRUE]

Field(n, t) == [name |-> n, width |-> t.width, signed |-> t.signed]

FDCAN_FetPack_t ==
    [id |-> 16, bytes |-> 24,
     fields |-> <<Field("fet_config", u32), Field("input_volt", u32),
                  Field("cap_volt", u32), Field("cap_curr", u32),
                  Field("res_curr", u32), Field("out_curr", u32)>>]
ECOCAN_RelPackChrg_t ==
    [id |-> 19, bytes |-> 8,
     fields |-> <<Field("fc_coloumbs", i32), Field("cap_coloumbs", i32)>>]
FDCAN_RelPackNrg_t ==
    [id |-> 20, bytes |-> 8,
     fields |-> <<Field("fc_joules", i32), Field("cap_joules", i32)>>]
FDCAN_RelPackMtr_t ==
    [id |-> 21, bytes |-> 8,
     fields |-> <<Field("mtr_volt", u32), Field("mtr_curr", u32)>>]
FDCAN_RelPackCap_t ==
    [id |-> 22, bytes |-> 8,
     fields |-> <<Field("cap_volt", u32), Field("cap_curr", i32)>>]
FDCAN_RelPackFc_t ==
    [id |-> 23, bytes |-> 8,
     fields |-> <<Field("fc_volt", u32), Field("fc_curr", u32)>>]
FDCAN_FccPack1_t ==
    [id |-> 32, bytes |-> 8,
     fields |-> <<Field("fc_temp", i32), Field("fc_press", u32)>>]
FDCAN_FccPack2_t ==
    [id |-> 33, bytes |-> 8,
     fields |-> <<Field("fan_rpm1", u32), Field("fan_rpm2", u32)>>]
FDCAN_FccPack3_t ==
    [id |-> 34, bytes |-> 8,
     fields |-> <<Field("bme_temp", u32), Field("bme_humid", u32)>>]
ECOCAN_H2Pack1_t ==
    [id |-> 48, bytes |-> 8,
     fields |-> <<Field("h2_sense_1", u16), Field("h2_sense_2", u16),
                  Field("h2_sense_3", u16), Field("h2_sense_4", u16)>>]
ECOCAN_H2Pack2_t ==
    [id |-> 49, bytes |-> 8,
     fields |-> <<Field("bme_temp", u16), Field("bme_humid", u16),
                  Field("imon_7v", u16), Field("imon_12v", u16)>>]
ECOCAN_H2_ARM_ALARM_t ==
    [id |-> 50, bytes |-> 1,
     fields |-> <<Field("h2_alarm_armed", u8)>>]
FDCAN_BOOSTPack1_t ==
    [id |-> 64, bytes |-> 8,
     fields |-> <<Field("in_curr", u32), Field("in_volt", u32)>>]
FDCAN_BOOSTPack2_t ==
    [id |-> 65, bytes |-> 8,
     fields |-> <<Field("out_curr", u32), Field("out_volt", u32)>>]
FDCAN_BOOSTPack3_t ==
    [id |-> 66, bytes |-> 8,
     fields |-> <<Field("efficiency", u32), Field("joules", u32)>>]
\* the battery pack under the identifier of FDCAN_BOOSTPack3_t
FDCAN_BATTPack2_t_shared_id ==
    [id |-> 66, bytes |-> 4,
     fields |-> <<Field("out_curr", u16), Field("out_volt", u16)>>]

FDCAN_BATTPack2_t ==
    [id |-> 80, bytes |-> 4,
     fields |-> <<Field("out_curr", u16), Field("out_volt", u16)>>]

\* every `impl FDCANPack for ...` of eco_can.rs, by type name
FDCANPack ==
    [FDCAN_FetPack_t       |-> FDCAN_FetPack_t,
     ECOCAN_RelPackChrg_t  |-> ECOCAN_RelPackChrg_t,
     FDCAN_RelPackNrg_t    |-> FDCAN_RelPackNrg_t,
     FDCAN_RelPackMtr_t    |-> FDCAN_RelPackMtr_t,
     FDCAN_RelPackCap_t    |-> FDCAN_RelPackCap_t,
     FDCAN_RelPackFc_t     |-> FDCAN_RelPackFc_t,
     FDCAN_FccPack1_t      |-> FDCAN_FccPack1_t,
     FDCAN_FccPack2_t      |-> FDCAN_FccPack2_t,
     FDCAN_FccPack3_t      |-> FDCAN_FccPack3_t,
     ECOCAN_H2Pack1_t      |-> ECOCAN_H2Pack1_t,
     ECOCAN_H2Pack2_t      |-> ECOCAN_H2Pack2_t,
     ECOCAN_H2_ARM_ALARM_t |-> ECOCAN_H2_ARM_ALARM_t,
     FDCAN_BOOSTPack1_t    |-> FDCAN_BOOSTPack1_t,
     FDCAN_BOOSTPack2_t    |-> FDCAN_BOOSTPack2_t,
     FDCAN_BOOSTPack3_t    |-> FDCAN_BOOSTPack3_t,
     FDCAN_BATTPack2_t     |-> FDCAN_BATTPack2_t]

PackTypes == DOMAIN FDCANPack

\* the catalog: identifier -> declared byte length
\* (the FDCANPack impls plus the relay-state identifier, one byte)
CatalogIds == {FDCANPack[t].id : t \in PackTypes} \cup {FDCAN_RELSTATE_ID}

\* RelayState is `#[repr(u8)]`: one byte on the wire
RELSTATE_BYTES == 1

DeclaredBytes(id) ==
    IF id = FDCAN_RELSTATE_ID THEN RELSTATE_BYTES
    ELSE LET t == CHOOSE x \in PackTypes : FDCANPack[x].id = id
         IN FDCANPack[t].bytes

----------------------------------------------------------------------------
(* The wire codec: bincode::config::standard().with_big_endian()           *)
(* .with_fixed_int_encoding(), as set up in decode_can_data and            *)
(* encode_can_package.  A derived Decode reads the fields in declaration   *)
(* order from a slice reader; a derived Encode writes them in that order.  *)

Pow256(k) == IF k = 0 THEN 1 ELSE IF k = 1 THEN 256
             ELSE IF k = 2 THEN 65536 ELSE 16777216

\* little-endian reading (bincode's default byte order), first byte least
\* significant; a u32 is kept below 2^31 by dropping its top bit
ReadIntLittleEndian(bytes, off, t) ==
    LET w == t.width
        b(k) == bytes[off + 1 + k]
        top == IF t.signed /\ b(w - 1) >= 128 THEN b(w - 1) - 256
               ELSE IF w = 4 THEN b(w - 1) % 128 ELSE b(w - 1)
        RECURSIVE Acc(_)
        Acc(k) == IF k = w - 1 THEN top * Pow256(k)
                  ELSE b(k) * Pow256(k) + Acc(k + 1)
    IN Acc(0)

\* the integer of type t stored big-endian in bytes[off+1 .. off+t.width]:
\* the first byte on the wire is the most significant, and carries the sign
\* of a two's-complement i32
ReadInt(bytes, off, t) ==
    LET w == t.width
        b(k) == bytes[off + 1 + k]
        top == IF t.signed /\ b(0) >= 128 THEN b(0) - 256 ELSE b(0)
        RECURSIVE Acc(_)
        Acc(k) == IF k = 0 THEN top * Pow256(w - 1)
                  ELSE b(k) * Pow256(w - 1 - k) + Acc(k - 1)
    IN Acc(w - 1)

\* least significant byte first
WriteIntLittleEndian(v, t) ==
    [k \in 1..t.width |-> (v \div Pow256(k - 1)) % 256]

\* bincode's default variable-length integers: one byte below 251, else a
\* marker byte and the fixed-width bytes
WriteIntVarint(v, t) ==
    IF v >= 0 /\ v < 251 THEN <<v>>
    ELSE <<252>> \o [k \in 1..t.width |-> (v \div Pow256(t.width - k)) % 256]

\* the t.width bytes of v, most significant first (two's complement:
\* \div rounds towards minus infinity and % is non-negative)
WriteInt(v, t) ==
    [k \in 1..t.width |-> (v \div Pow256(t.width - k)) % 256]

\* a decoder that rejects a slice it does not read to the end
decode_from_slice_exact(T, rx_data) ==
    LET RECURSIVE Read(_, _, _)
        Read(k, off, acc) ==
            IF k > Len(T.fields)
            THEN [ok |-> off = Len(rx_data), val |-> acc, read |-> off]
            ELSE LET f == T.fields[k] IN
                 IF off + f.width > Len(rx_data)
                 THEN [ok |-> FALSE, val |-> acc, read |-> off]
                 ELSE Read(k + 1, off + f.width,
                           acc @@ (f.name :> ReadInt(rx_data, off, f)))
    IN Read(1, 0, <<>>)

\* bincode::decode_from_slice(rx_data, config) for a record of layout T:
\* Ok with the record and the bytes consumed, or Err when the reader runs
\* out of bytes (DecodeError::UnexpectedEnd); trailing bytes are not read.
decode_from_slice(T, rx_data) ==
    LET RECURSIVE Read(_, _, _)
        Read(k, off, acc) ==
            IF k > Len(T.fields) THEN [ok |-> TRUE, val |-> acc, read |-> off]
            ELSE LET f == T.fields[k] IN
                 IF off + f.width > Len(rx_data)
                 THEN [ok |-> FALSE, val |-> acc, read |-> off]
                 ELSE Read(k + 1, off + f.width,
                           acc @@ (f.name :> ReadInt(rx_data, off, f)))
    IN Read(1, 0, <<>>)

\* bincode::encode_into_slice(p, dst, config): the fields in declaration
\* order; Ok with the count written, Err when dst is too short
\* (EncodeError::UnexpectedEnd).  dst keeps the bytes it does not write.
encode_into_slice(T, p, dst) ==
    LET RECURSIVE Write(_, _)
        Write(k, out) ==
            IF k > Len(T.fields) THEN [ok |-> TRUE, len |-> Len(out), bytes |-> out]
            ELSE LET f == T.fields[k] IN
                 IF Len(out) + f.width > Len(dst)
                 THEN [ok |-> FALSE, len |-> Len(out), bytes |-> out]
                 ELSE Write(k + 1, out \o WriteInt(p[f.name], f))
        w == Write(1, <<>>)
    IN [ok |-> w.ok, len |-> w.len,
        data |-> [i \in 1..Len(dst) |-> IF i <= w.len THEN w.bytes[i] ELSE dst[i]]]

\* `#[derive(Default)]`: every field zero
Default(T) == [n \in {T.fields[k].name : k \in 1..Len(T.fields)} |-> 0]

----------------------------------------------------------------------------
(* can_mod.rs: the state slots *)

TX_BUF_SIZE == 1
RX_BUF_SIZE == 20

\* the record type held by each `static ...: Mutex<ThreadModeRawMutex, T>`
SlotType ==
    [FET_DATA         |-> "FDCAN_FetPack_t",
     FCC_PACK1_DATA   |-> "FDCAN_FccPack1_t",
     FCC_PACK2_DATA   |-> "FDCAN_FccPack2_t",
     FCC_PACK3_DATA   |-> "FDCAN_FccPack3_t",
     H2_PACK1_DATA    |-> "ECOCAN_H2Pack1_t",
     H2_PACK2_DATA    |-> "ECOCAN_H2Pack2_t",
     BOOST_PACK1_DATA |-> "FDCAN_BOOSTPack1_t",
     BOOST_PACK2_DATA |-> "FDCAN_BOOSTPack2_t",
     BOOST_PACK3_DATA |-> "FDCAN_BOOSTPack3_t",
     REL_FC_PACK      |-> "FDCAN_RelPackFc_t",
     REL_CAP_PACK     |-> "FDCAN_RelPackCap_t",
     RELAY_MOTOR_PACK |-> "FDCAN_RelPackMtr_t"]

PackSlots == DOMAIN SlotType
Slots == PackSlots \cup {"RELAY_STATE"}

\* layout of the record a pack slot holds
SlotPack(s) == FDCANPack[SlotType[s]]

\* the initial values of the statics
InitStore ==
    [s \in Slots |-> IF s = "RELAY_STATE" THEN RELAY_STBY
                     ELSE Default(SlotPack(s))]

----------------------------------------------------------------------------
(* can_mod.rs: the router *)

\* RelayState::try_from(u8): the enumerated patterns convert, every other
\* byte is an error
RelayState_try_from(b) ==
    IF b \in RelayState THEN [ok |-> TRUE, val |-> b]
    ELSE [ok |-> FALSE, val |-> b]

\* decode_can_data(package, rx_data) on a Mutex holding p of layout T:
\* the `?` returns the error before the assignment to *p, so p stays
decode_can_data(T, p, rx_data) ==
    LET d == decode_from_slice(T, rx_data)
    IN IF d.ok
       THEN [val |-> d.val, result |-> "Ok", err |-> "none"]
       ELSE [val |-> p, result |-> "Err", err |-> "UnexpectedEnd"]

\* a pack arm that also puts RELAY_STATE to run
PackArm_setting_relay(st, slot, rx_data) ==
    LET r == decode_can_data(SlotPack(slot), st[slot], rx_data)
    IN [store |-> [st EXCEPT ![slot] = r.val, !.RELAY_STATE = RELAY_RUN],
        result |-> r.result, err |-> r.err]

\* an arm `X::FDCAN_ID => decode_can_data(&SLOT, rx_data).await`
PackArm(st, slot, rx_data) ==
    LET r == decode_can_data(SlotPack(slot), st[slot], rx_data)
    IN [store |-> [st EXCEPT ![slot] = r.val], result |-> r.result,
        err |-> r.err]

\* the relay arm storing the byte without the conversion's check
RelayArm_unchecked(st, rx_data) ==
    IF Len(rx_data) = 0
    THEN [store |-> st, result |-> "Panic", err |-> "none"]
    ELSE [store |-> [st EXCEPT !.RELAY_STATE = rx_data[1]],
          result |-> IF RelayState_try_from(rx_data[1]).ok THEN "Ok" ELSE "Err",
          err |-> IF RelayState_try_from(rx_data[1]).ok THEN "none" ELSE "RelayState"]

\* the arm `RelayState::FDCAN_ID => { ... }`: rx_data[0] panics on an
\* empty payload (index out of bounds); the `?` returns the conversion's
\* error before the assignment to *relay_state
RelayArm(st, rx_data) ==
    IF Len(rx_data) = 0
    THEN [store |-> st, result |-> "Panic", err |-> "none"]
    ELSE LET r == RelayState_try_from(rx_data[1])
         IN IF r.ok
            THEN [store |-> [st EXCEPT !.RELAY_STATE = r.val],
                  result |-> "Ok", err |-> "none"]
            ELSE [store |-> st, result |-> "Err", err |-> "RelayState"]

\* the identifiers of the arms that call decode_can_data
PackArmIds ==
    {FDCAN_FccPack1_t.id, FDCAN_FccPack2_t.id, FDCAN_FccPack3_t.id,
     FDCAN_FetPack_t.id, FDCAN_RelPackMtr_t.id, FDCAN_RelPackCap_t.id,
     FDCAN_RelPackFc_t.id, ECOCAN_H2Pack1_t.id, ECOCAN_H2Pack2_t.id,
     FDCAN_BOOSTPack1_t.id, FDCAN_BOOSTPack2_t.id, FDCAN_BOOSTPack3_t.id}

\* the arms with the slots of two boost packs exchanged
ArmSlot_swapped(id) ==
    CASE id = FDCAN_FccPack1_t.id   -> "FCC_PACK1_DATA"
      [] id = FDCAN_FccPack2_t.id   -> "FCC_PACK2_DATA"
      [] id = FDCAN_FccPack3_t.id   -> "FCC_PACK3_DATA"
      [] id = FDCAN_FetPack_t.id    -> "FET_DATA"
      [] id = FDCAN_RelPackMtr_t.id -> "RELAY_MOTOR_PACK"
      [] id = FDCAN_RelPackCap_t.id -> "REL_CAP_PACK"
      [] id = FDCAN_RelPackFc_t.id  -> "REL_FC_PACK"
      [] id = ECOCAN_H2Pack1_t.id   -> "H2_PACK1_DATA"
      [] id = ECOCAN_H2Pack2_t.id   -> "H2_PACK2_DATA"
      [] id = FDCAN_BOOSTPack1_t.id -> "BOOST_PACK2_DATA"
      [] id = FDCAN_BOOSTPack2_t.id -> "BOOST_PACK1_DATA"
      [] id = FDCAN_BOOSTPack3_t.id -> "BOOST_PACK3_DATA"

\* the slot each arm `X::FDCAN_ID => decode_can_data(&SLOT, rx_data)` names
ArmSlot(id) ==
    CASE id = FDCAN_FccPack1_t.id   -> "FCC_PACK1_DATA"
      [] id = FDCAN_FccPack2_t.id   -> "FCC_PACK2_DATA"
      [] id = FDCAN_FccPack3_t.id   -> "FCC_PACK3_DATA"
      [] id = FDCAN_FetPack_t.id    -> "FET_DATA"
      [] id = FDCAN_RelPackMtr_t.id -> "RELAY_MOTOR_PACK"
      [] id = FDCAN_RelPackCap_t.id -> "REL_CAP_PACK"
      [] id = FDCAN_RelPackFc_t.id  -> "REL_FC_PACK"
      [] id = ECOCAN_H2Pack1_t.id   -> "H2_PACK1_DATA"
      [] id = ECOCAN_H2Pack2_t.id   -> "H2_PACK2_DATA"
      [] id = FDCAN_BOOSTPack1_t.id -> "BOOST_PACK1_DATA"
      [] id = FDCAN_BOOSTPack2_t.id -> "BOOST_PACK2_DATA"
      [] id = FDCAN_BOOSTPack3_t.id -> "BOOST_PACK3_DATA"

\* an unmatched identifier reported as a decode error
Unmatched_as_error(st, id) == [store |-> st, result |-> "Err", err |-> "Unmatched"]

\* the arm `_ => { info!("Non-Relevant ID ..."); Ok(()) }`
Unmatched(st, id) == [store |-> st, result |-> "Ok", err |-> "none"]

\* decode_can_frame(frame): a frame is [id, data], id being the raw
\* standard or extended identifier as a u32 and data being
\* frame.data()[..frame.header().len()]
decode_can_frame(st, frame) ==
    LET id == frame.id
        rx_data == frame.data
    IN CASE id = FDCAN_RELSTATE_ID -> RelayArm(st, rx_data)
         [] id \in PackArmIds -> PackArm(st, ArmSlot(id), rx_data)
         [] OTHER -> Unmatched(st, id)

\* process_rx_can_frame with a debug counter bumped after every frame
process_rx_can_frame_counting(st, rx_frame) ==
    LET r == decode_can_frame(st, rx_frame)
        v == r.store.RELAY_MOTOR_PACK.mtr_volt
    IN [store |-> [r.store EXCEPT !.RELAY_MOTOR_PACK.mtr_volt =
                                      IF v >= 2147483647 THEN 0 ELSE v + 1],
        result |-> r.result, err |-> r.err,
        logged |-> IF r.result = "Err" THEN "CAN Decode Error" ELSE "none"]

\* process_rx_can_frame(rx_frame): an Err of decode_can_frame is logged
\* and dropped; a panic unwinds through it
process_rx_can_frame(st, rx_frame) ==
    LET r == decode_can_frame(st, rx_frame)
    IN [store |-> r.store, result |-> r.result, err |-> r.err,
        logged |-> IF r.result = "Err" THEN "CAN Decode Error" ELSE "none"]

\* encode_can_package(package, tx_data) on a Mutex holding p of layout T
encode_can_package(T, p, dst) == encode_into_slice(T, p, dst)

----------------------------------------------------------------------------
(* Inbound frames *)

\* an identifier of a higher-priority band and one outside every band
FDCAN_H2ALARM_ID == 1       \* 0x001
ForeignId == 2457           \* 0x999

RouteIds == CatalogIds \cup {FDCAN_H2ALARM_ID, ForeignId}

\* the payload lengths a CAN-FD frame can have, up to the bound
FrameLens == {n \in FDCANLength : n <= MaxPayloadLen}

\* byte offset of the k-th field of layout T (no padding, no prefix)
RECURSIVE FieldOffset(_, _)
FieldOffset(T, k) ==
    IF k = 1 THEN 0 ELSE FieldOffset(T, k - 1) + T.fields[k - 1].width

\* largest sampled value of each field: 0x7FFFFFFF for u32, all ones
\* (-1, 65535, 255) for the others
ExtremeByte(id, i) ==
    IF \E t \in PackTypes : FDCANPack[t].id = id
    THEN LET T == FDCANPack[CHOOSE t \in PackTypes : FDCANPack[t].id = id]
         IN IF \E k \in 1..Len(T.fields) :
                   /\ i = FieldOffset(T, k) + 1
                   /\ T.fields[k].width = 4
                   /\ ~T.fields[k].signed
            THEN 127 ELSE 255
    ELSE 255

Patterns == {"zero", "scenario", "ramp", "extreme", "chrge", "strtp", "run"}

PatByte(id, pat, i) ==
    CASE pat = "zero"     -> 0
      [] pat = "scenario" -> IF i % 4 = 0 THEN 5 * (i \div 4) ELSE 0
      [] pat = "ramp"     -> i
      [] pat = "extreme"  -> ExtremeByte(id, i)
      [] pat = "chrge"    -> RELAY_CHRGE
      [] pat = "strtp"    -> RELAY_STRTP
      [] pat = "run"      -> RELAY_RUN

Payload(id, pat, n) == [i \in 1..n |-> PatByte(id, pat, i)]

Frame(id, pat, n) == [id |-> id, data |-> Payload(id, pat, n)]

Frames == {Frame(id, pat, n) : id \in RouteIds, pat \in Patterns, n \in FrameLens}

NoFrame == [id |-> -1, data |-> <<>>]
NoLast == [frame |-> NoFrame, pre |-> InitStore, result |-> "none",
           err |-> "none", n |-> 0]
NoPackage == [type |-> "none", val |-> <<>>, rx |-> <<>>]
\* no wake yet: ok = can.read() returned Ok, n = items buffered then (the
\* one returned included), t0 = items taken before
NoWake == [ok |-> FALSE, n |-> 0, t0 |-> 0]

\* the identifiers decode_can_frame has an arm for
MatchedIdSet == {FDCAN_RELSTATE_ID} \cup PackArmIds

\* the slot whose record type carries the identifier id
SlotOf(id) ==
    IF id = FDCAN_RELSTATE_ID THEN "RELAY_STATE"
    ELSE CHOOSE s \in PackSlots : SlotPack(s).id = id

\* number of iterations of the startup loop, `for _ in 0..40`
STARTUP_ITERATIONS == 40

\* the store once the startup loop has run
StartupStore == [InitStore EXCEPT !.RELAY_MOTOR_PACK.mtr_volt = STARTUP_ITERATIONS]

\* the store after routing the frames fs one after the other
RECURSIVE RouteSeq(_, _)
RouteSeq(st, fs) ==
    IF fs = <<>> THEN st
    ELSE RouteSeq(process_rx_can_frame(st, Head(fs)).store, Tail(fs))

\* one full-length frame of pattern pat for every matched identifier
FullFrames(pat) ==
    LET RECURSIVE Each(_)
        Each(S) == IF S = {} THEN <<>>
                  ELSE LET id == CHOOSE x \in S : TRUE
                       IN <<Frame(id, pat, DeclaredBytes(id))>> \o Each(S \ {id})
    IN Each(MatchedIdSet)

\* stores the task reaches: fresh, after the startup loop, and after one
\* full-length frame of a pattern for every matched identifier
StoreSamples ==
    {InitStore, StartupStore} \cup
    {RouteSeq(StartupStore, FullFrames(pat)) : pat \in {"ramp", "extreme", "run"}}

----------------------------------------------------------------------------
(* Routing one frame, then the same frame again *)

\* the state change of one call of process_rx_can_frame(f); a panic ends
\* the task (panic_probe halts the core)
Process(f, nextpc) ==
    LET r == process_rx_can_frame(store, f)
    IN /\ store' = r.store
       /\ last' = [frame |-> f, pre |-> store, result |-> r.result,
                   err |-> r.err, n |-> last.n + 1]
       /\ pc' = IF r.result = "Panic" THEN "panicked" ELSE nextpc

InitRoute ==
    /\ store \in StoreSamples
    /\ cur \in Frames
    /\ pc = "route"
    /\ last = NoLast
    /\ iter = 0 /\ tx_data = <<>> /\ tx_len = 0 /\ sent = <<>>
    /\ rxbuf = <<>> /\ drain_i = 0 /\ package = NoPackage
    /\ arrived = <<>> /\ taken = 0
    /\ held = {} /\ others = {} /\ wake = NoWake
    /\ last_read_ts = 0 /\ delta = 0

RouteFrame ==
    /\ pc = "route"
    /\ Process(cur, "reroute")
    /\ UNCHANGED <<iter, tx_data, tx_len, sent, rxbuf, cur, drain_i,
                   package, arrived, taken, aux>>

RerouteFrame ==
    /\ pc = "reroute"
    /\ Process(cur, "routed")
    /\ UNCHANGED <<iter, tx_data, tx_len, sent, rxbuf, cur, drain_i,
                   package, arrived, taken, aux>>

NextRoute == RouteFrame \/ RerouteFrame

SpecRoute == InitRoute /\ [][NextRoute]_vars

----------------------------------------------------------------------------
(* Properties of the router, checked under SpecRoute *)

\* the frame of the last call of decode_can_frame, and its identifier
Routed == last.n >= 1
RoutedId == last.frame.id
RoutedData == last.frame.data

\* the fixed-width big-endian integer at byte offset off of data
BigEndianAt(data, off, f) ==
    CASE f.width = 1 -> data[off + 1]
      [] f.width = 2 -> data[off + 1] * 256 + data[off + 2]
      [] f.width = 4 ->
            (IF f.signed /\ data[off + 1] >= 128
             THEN data[off + 1] - 256 ELSE data[off + 1]) * 16777216
            + data[off + 2] * 65536 + data[off + 3] * 256 + data[off + 4]

\* the record whose every field is the integer found at the field's offset
RecordAt(T, data) ==
    [n \in {T.fields[k].name : k \in 1..Len(T.fields)} |->
        LET k == CHOOSE j \in 1..Len(T.fields) : T.fields[j].name = n
        IN BigEndianAt(data, FieldOffset(T, k), T.fields[k])]

\* C1: for every identifier decode_can_frame matches (0x018 included) and
\* every payload shorter than the declared length (the empty payload
\* included), routing ends in an error outcome, does not abort the task and
\* leaves the identifier's slot as it was.
C1_ShortPayloadRejected ==
    (Routed /\ RoutedId \in MatchedIdSet
            /\ Len(RoutedData) < DeclaredBytes(RoutedId))
    => /\ last.result = "Err"
       /\ pc # "panicked"
       /\ store[SlotOf(RoutedId)] = last.pre[SlotOf(RoutedId)]

\* C2: a frame whose identifier is not in the catalog gives a non-error
\* outcome and leaves every slot as it was.
C2_UnmatchedIgnored ==
    (Routed /\ RoutedId \notin CatalogIds)
    => /\ last.result = "Ok"
       /\ pc # "panicked"
       /\ store = last.pre

C2_Witness ==
    /\ Routed /\ RoutedId = ForeignId /\ Len(RoutedData) = 8
    /\ last.result = "Ok"
    /\ store # InitStore

\* C3: a frame 0x018 stores its first byte in RELAY_STATE exactly when the
\* byte is 0x00, 0x02, 0x06 or 0x0D; any other byte is rejected and
\* RELAY_STATE keeps its value; RELAY_STATE always holds one of the four.
C3_RelayStateEnumerated ==
    /\ store.RELAY_STATE \in {0, 2, 6, 13}
    /\ (Routed /\ RoutedId = 24 /\ Len(RoutedData) >= 1)
       => IF RoutedData[1] \in {0, 2, 6, 13}
          THEN last.result = "Ok" /\ store.RELAY_STATE = RoutedData[1]
          ELSE last.result = "Err" /\ store.RELAY_STATE = last.pre.RELAY_STATE

C3_Witness ==
    /\ Routed /\ RoutedId = 24 /\ RoutedData = <<255>>
    /\ last.result = "Err"
    /\ last.pre.RELAY_STATE = 13
    /\ store.RELAY_STATE = 13

C5_BigEndianFixedWidth ==
    /\ (Routed /\ RoutedId \in PackArmIds /\ last.result = "Ok")
       => store[SlotOf(RoutedId)] = RecordAt(SlotPack(SlotOf(RoutedId)), RoutedData)
    /\ (Routed /\ RoutedId = 21 /\ RoutedData = <<0, 0, 0, 5, 0, 0, 0, 10>>)
       => /\ last.result = "Ok"
          /\ store.RELAY_MOTOR_PACK = [mtr_volt |-> 5, mtr_curr |-> 10]

C5_Witness ==
    /\ Routed /\ RoutedId = 21 /\ RoutedData = <<0, 0, 0, 5, 0, 0, 0, 10>>
    /\ last.pre.RELAY_MOTOR_PACK = [mtr_volt |-> 40, mtr_curr |-> 0]
    /\ store.RELAY_MOTOR_PACK = [mtr_volt |-> 5, mtr_curr |-> 10]

\* C8: a payload longer than the matched layout is accepted: the slot
\* becomes what the leading bytes alone decode to, the rest is ignored.
C8_TrailingBytesIgnored ==
    (Routed /\ RoutedId \in MatchedIdSet
            /\ Len(RoutedData) > DeclaredBytes(RoutedId)
            /\ (RoutedId = FDCAN_RELSTATE_ID => RoutedData[1] \in RelayState))
    => LET lead == [id |-> RoutedId,
                    data |-> SubSeq(RoutedData, 1, DeclaredBytes(RoutedId))]
       IN /\ last.result = "Ok"
          /\ store = process_rx_can_frame(last.pre, lead).store

C8_Witness ==
    /\ Routed /\ RoutedId = 16 /\ Len(RoutedData) = 32
    /\ last.result = "Ok"
    /\ store.FET_DATA.out_curr = 353769240
    /\ last.pre.FET_DATA.out_curr = 0

\* C9: routing the same frame a second time leaves every slot as the first
\* routing left it.
C9_RouteIdempotent ==
    (pc = "routed") => (last.n = 2 /\ store = last.pre)

C9_Witness ==
    /\ pc = "routed" /\ last.n = 2
    /\ last.frame.id = 22 /\ last.result = "Ok"
    /\ store.REL_CAP_PACK = [cap_volt |-> 2147483647, cap_curr |-> -1]
    /\ store.RELAY_MOTOR_PACK.mtr_volt = 40

----------------------------------------------------------------------------
(* The codec on one package: encode_can_package on a Mutex<T>, then        *)
(* decode_can_data of the bytes produced into another Mutex<T>             *)

\* sampled values of a field: every u8; zero, small, byte-distinct and
\* extreme values of the wider types
FieldValues(f) ==
    IF f.width = 1 THEN 0..255
    ELSE IF f.width = 2 THEN {0, 1, 258, 65535}
    ELSE IF f.signed THEN {-2147483647 - 1, -2, 0, 10, 16909060, 2147483647}
    ELSE {0, 5, 40, 16909060, 2147483647}

\* the records of layout T over the sampled field values
Records(T) ==
    LET names == {T.fields[k].name : k \in 1..Len(T.fields)}
        fld(n) == T.fields[CHOOSE k \in 1..Len(T.fields) : T.fields[k].name = n]
    IN {r \in [names -> UNION {FieldValues(T.fields[k]) : k \in 1..Len(T.fields)}] :
           \A n \in names : r[n] \in FieldValues(fld(n))}

\* `let mut tx_data = [0; 64];`
TX_DATA_LEN == 64
InitTxData == [i \in 1..TX_DATA_LEN |-> 0]

InitCodec ==
    /\ \E t \in PackTypes : \E v \in Records(FDCANPack[t]) :
          package = [type |-> t, val |-> v, rx |-> Default(FDCANPack[t])]
    /\ pc = "encode"
    /\ tx_data = InitTxData /\ tx_len = 0
    /\ store = InitStore /\ cur = NoFrame /\ last = NoLast
    /\ iter = 0 /\ sent = <<>> /\ rxbuf = <<>> /\ drain_i = 0
    /\ arrived = <<>> /\ taken = 0
    /\ held = {} /\ others = {} /\ wake = NoWake
    /\ last_read_ts = 0 /\ delta = 0

\* encode_can_package(&package, &mut tx_data)
EncodePackage ==
    /\ pc = "encode"
    /\ LET r == encode_can_package(FDCANPack[package.type], package.val, tx_data)
       IN /\ tx_data' = r.data
          /\ tx_len' = IF r.ok THEN r.len ELSE -1
    /\ pc' = "decode"
    /\ UNCHANGED <<store, iter, sent, rxbuf, cur, drain_i, package,
                   arrived, taken, last, aux>>

\* decode_can_data(&rx, &tx_data[..tx_len]) at a receiver of the frame
DecodePackage ==
    /\ pc = "decode"
    /\ tx_len >= 0
    /\ LET r == decode_can_data(FDCANPack[package.type], package.rx,
                                SubSeq(tx_data, 1, tx_len))
       IN /\ package' = [package EXCEPT !.rx = r.val]
          /\ last' = [last EXCEPT !.result = r.result, !.err = r.err, !.n = 1]
    /\ pc' = "decoded"
    /\ UNCHANGED <<store, iter, tx_data, tx_len, sent, rxbuf, cur, drain_i,
                   arrived, taken, aux>>

NextCodec == EncodePackage \/ DecodePackage

SpecCodec == InitCodec /\ [][NextCodec]_vars

\* C6: for every FDCANPack record, decoding the bytes encode_can_package
\* produced gives a record equal to the one encoded.
C6_RoundTrip ==
    (pc = "decoded") => (last.result = "Ok" /\ package.rx = package.val)

C6_Witness ==
    /\ pc = "decoded"
    /\ package.type = "FDCAN_RelPackCap_t"
    /\ package.val = [cap_volt |-> 2147483647, cap_curr |-> -2]
    /\ package.rx = [cap_volt |-> 2147483647, cap_curr |-> -2]
    /\ SubSeq(tx_data, 1, tx_len) = <<127, 255, 255, 255, 255, 255, 255, 254>>

\* the sum of the field widths of layout T
WidthSum(T) ==
    LET RECURSIVE Sum(_)
        Sum(k) == IF k = 0 THEN 0 ELSE T.fields[k].width + Sum(k - 1)
    IN Sum(Len(T.fields))

\* C7: encode_can_package succeeds with exactly the declared byte length
\* FDCAN_BYTES of the record's type, which is the sum of its field widths.
C7_EncodedLength ==
    /\ \A t \in PackTypes : WidthSum(FDCANPack[t]) = FDCANPack[t].bytes
    /\ (pc \in {"decode", "decoded"})
       => /\ tx_len = FDCANPack[package.type].bytes
          /\ \A i \in (tx_len + 1)..TX_DATA_LEN : tx_data[i] = 0

C7_Witness ==
    /\ pc = "decode"
    /\ package.type = "FDCAN_FetPack_t"
    /\ package.val.out_curr = 16909060
    /\ tx_len = 24
    /\ SubSeq(tx_data, 21, 24) = <<1, 2, 3, 4>>

----------------------------------------------------------------------------
(* can_receive_task: the startup loop, then the receive loop               *)

\* what the driver puts into the receive buffer: Ok(envelope) or Err(bus error)
RxOk(f) == [ok |-> TRUE, frame |-> f]
RxErr == [ok |-> FALSE, frame |-> NoFrame]

\* the items the driver delivers in this model: two different motor frames
\* and a truncated one, relay frames (accepted, rejected, empty), a frame
\* each for 0x010 and 0x020, a foreign frame and a bus error
RxItems ==
    {RxOk(Frame(FDCAN_RelPackMtr_t.id, "scenario", 8)),
     RxOk(Frame(FDCAN_RelPackMtr_t.id, "ramp", 8)),
     RxOk(Frame(FDCAN_RelPackMtr_t.id, "ramp", 7)),
     RxOk(Frame(FDCAN_RELSTATE_ID, "chrge", 1)),
     RxOk(Frame(FDCAN_RELSTATE_ID, "extreme", 1)),
     RxOk(Frame(FDCAN_RELSTATE_ID, "zero", 0)),
     RxOk(Frame(FDCAN_FetPack_t.id, "ramp", 24)),
     RxOk(Frame(FDCAN_FccPack1_t.id, "extreme", 8)),
     RxOk(Frame(ForeignId, "ramp", 8)),
     RxErr}

Init ==
    /\ store = InitStore
    /\ pc = "startup_lock"
    /\ iter = 0
    /\ tx_data = InitTxData
    /\ tx_len = 0
    /\ sent = <<>>
    /\ rxbuf = <<>>
    /\ cur = NoFrame
    /\ drain_i = 0
    /\ package = NoPackage
    /\ arrived = <<>>
    /\ taken = 0
    /\ last = NoLast
    /\ held = {} /\ others = {} /\ wake = NoWake
    /\ last_read_ts = 0 /\ delta = 0

\* the receive interrupt: the driver appends an item to the receive buffer
\* unless the buffer is full
Arrive ==
    /\ pc # "panicked"
    /\ Len(arrived) < MaxArrivals
    /\ Len(rxbuf) < RX_BUF_SIZE
    /\ \E item \in RxItems :
          /\ rxbuf' = Append(rxbuf, item)
          /\ arrived' = Append(arrived, item)
    /\ UNCHANGED <<store, pc, iter, tx_data, tx_len, sent, cur, drain_i,
                   package, taken, last, aux>>

\* `let mut pack = RELAY_MOTOR_PACK.lock().await; pack.mtr_volt += 1; drop(pack);`
StartupIncrement ==
    /\ pc = "startup_lock"
    /\ iter < STARTUP_ITERATIONS
    /\ store' = [store EXCEPT !.RELAY_MOTOR_PACK.mtr_volt = @ + 1]
    /\ pc' = "startup_encode"
    /\ UNCHANGED <<iter, tx_data, tx_len, sent, rxbuf, cur, drain_i,
                   package, arrived, taken, last, aux>>

\* `match encode_can_package(&RELAY_MOTOR_PACK, &mut tx_data).await`:
\* Err is logged and the iteration ends
StartupEncode ==
    /\ pc = "startup_encode"
    /\ LET r == encode_can_package(SlotPack("RELAY_MOTOR_PACK"),
                                   store.RELAY_MOTOR_PACK, tx_data)
       IN /\ tx_data' = r.data
          /\ tx_len' = IF r.ok THEN r.len ELSE -1
          /\ pc' = IF r.ok THEN "startup_write"
                   ELSE IF iter + 1 = STARTUP_ITERATIONS THEN "read"
                   ELSE "startup_lock"
          /\ iter' = IF r.ok THEN iter ELSE iter + 1
    /\ UNCHANGED <<store, sent, rxbuf, cur, drain_i, package, arrived,
                   taken, last, aux>>

\* `FdFrame::new_extended(FDCAN_RelPackCap_t::FDCAN_ID, &tx_data[..tx_len])`
\* and `can.write(frame).await`
StartupWrite ==
    /\ pc = "startup_write"
    /\ sent' = Append(sent, [id |-> FDCAN_RelPackCap_t.id,
                             data |-> SubSeq(tx_data, 1, tx_len)])
    /\ iter' = iter + 1
    /\ pc' = IF iter + 1 = STARTUP_ITERATIONS THEN "read" ELSE "startup_lock"
    /\ UNCHANGED <<store, tx_data, tx_len, rxbuf, cur, drain_i, package,
                   arrived, taken, last, aux>>

\* the outcome of handling one item taken from the receive buffer:
\* Ok(envelope) is routed, Err(err) is logged
Handle(item, nextpc) ==
    IF item.ok
    THEN Process(item.frame, nextpc)
    ELSE /\ pc' = nextpc
         /\ UNCHANGED <<store, last>>

\* a blocking read that goes back to can.read() at once on a bus error
ReadFrame_error_retries ==
    /\ pc = "read"
    /\ rxbuf # <<>>
    /\ LET item == Head(rxbuf)
       IN /\ rxbuf' = Tail(rxbuf)
          /\ cur' = item.frame
          /\ taken' = taken + 1
          /\ Handle(item, IF item.ok THEN "drain" ELSE "read")
    /\ drain_i' = 0
    /\ wake' = [ok |-> Head(rxbuf).ok, n |-> Len(rxbuf), t0 |-> taken]
    /\ UNCHANGED <<iter, tx_data, tx_len, sent, package, arrived, held,
                   others, last_read_ts, delta>>

\* `match can.read().await`: blocks until the buffer holds an item; an
\* envelope is processed and the drain follows, an error goes to the delay
ReadFrame ==
    /\ pc = "read"
    /\ rxbuf # <<>>
    /\ LET item == Head(rxbuf)
       IN /\ rxbuf' = Tail(rxbuf)
          /\ cur' = item.frame
          /\ taken' = taken + 1
          /\ Handle(item, IF item.ok THEN "drain" ELSE "delay")
    /\ drain_i' = 0
    /\ wake' = [ok |-> Head(rxbuf).ok, n |-> Len(rxbuf), t0 |-> taken]
    /\ UNCHANGED <<iter, tx_data, tx_len, sent, package, arrived, held,
                   others, last_read_ts, delta>>

\* a drain that goes on for as long as the buffer holds an item
DrainStep_unbounded ==
    /\ pc = "drain"
    /\ IF rxbuf # <<>>
       THEN LET item == Head(rxbuf)
            IN /\ rxbuf' = Tail(rxbuf)
               /\ cur' = item.frame
               /\ taken' = taken + 1
               /\ drain_i' = drain_i + 1
               /\ Handle(item, "drain")
       ELSE /\ pc' = "delay"
            /\ UNCHANGED <<store, rxbuf, cur, taken, drain_i, last>>
    /\ UNCHANGED <<iter, tx_data, tx_len, sent, package, arrived, aux>>

\* a drain that returns straight to can.read()
DrainStep_no_delay ==
    /\ pc = "drain"
    /\ IF drain_i < RX_BUF_SIZE /\ rxbuf # <<>>
       THEN LET item == Head(rxbuf)
            IN /\ rxbuf' = Tail(rxbuf)
               /\ cur' = item.frame
               /\ taken' = taken + 1
               /\ drain_i' = drain_i + 1
               /\ Handle(item, "drain")
       ELSE /\ pc' = "read"
            /\ UNCHANGED <<store, rxbuf, cur, taken, drain_i, last>>
    /\ UNCHANGED <<iter, tx_data, tx_len, sent, package, arrived, aux>>

\* one iteration of `for _ in 0..RX_BUF_SIZE` in drain_rx_can_buffer:
\* try_receive takes the oldest item, or the function returns when the
\* buffer is empty; the function also returns when the loop is exhausted
DrainStep ==
    /\ pc = "drain"
    /\ IF drain_i < RX_BUF_SIZE /\ rxbuf # <<>>
       THEN LET item == Head(rxbuf)
            IN /\ rxbuf' = Tail(rxbuf)
               /\ cur' = item.frame
               /\ taken' = taken + 1
               /\ drain_i' = drain_i + 1
               /\ Handle(item, "drain")
       ELSE /\ pc' = "delay"
            /\ UNCHANGED <<store, rxbuf, cur, taken, drain_i, last>>
    /\ UNCHANGED <<iter, tx_data, tx_len, sent, package, arrived, aux>>

\* `Timer::after_millis(1).await` at the end of the loop body
Delay ==
    /\ pc = "delay"
    /\ pc' = "read"
    /\ UNCHANGED <<store, iter, tx_data, tx_len, sent, rxbuf, cur, drain_i,
                   package, arrived, taken, last, aux>>

Next ==
    \/ Arrive
    \/ StartupIncrement
    \/ StartupEncode
    \/ StartupWrite
    \/ ReadFrame
    \/ DrainStep
    \/ Delay

Spec == Init /\ [][Next]_vars

----------------------------------------------------------------------------
(* Order of routing in the receive loop *)

\* the task is in its receive loop
InReceiveLoop == pc \in {"read", "drain", "delay"}

\* the items the task has taken from the receive buffer so far, in the
\* order the driver delivered them
Delivered == SubSeq(arrived, 1, taken)

\* TRUE when the item is a frame for slot s that decodes
DecodesFor(item, s) ==
    /\ item.ok
    /\ IF s = "RELAY_STATE"
       THEN /\ item.frame.id = 24
            /\ Len(item.frame.data) >= 1
            /\ item.frame.data[1] \in {0, 2, 6, 13}
       ELSE /\ item.frame.id = SlotPack(s).id
            /\ Len(item.frame.data) >= SlotPack(s).bytes

\* the decode of the most recent item of items that decodes for slot s,
\* or base when there is none
RECURSIVE LastDecoded(_, _, _)
LastDecoded(items, s, base) ==
    IF items = <<>> THEN base
    ELSE LET item == items[Len(items)]
         IN IF DecodesFor(item, s)
            THEN IF s = "RELAY_STATE" THEN item.frame.data[1]
                 ELSE RecordAt(SlotPack(s), item.frame.data)
            ELSE LastDecoded(SubSeq(items, 1, Len(items) - 1), s, base)

\* C10: after the pump has processed a sequence of frames, every slot holds
\* the decode of the most recently delivered frame for its identifier that
\* decoded, or the slot's initial value when there was none.
C10_LastDecodedWins ==
    (InReceiveLoop /\ Routed)
    => \A s \in Slots : store[s] = LastDecoded(Delivered, s, InitStore[s])

\* The same with the value the slot holds when the receive loop starts in
\* place of its initial value: the frames are routed in delivery order and
\* the last decoded write wins.
LastDecodedWinsSinceStartup ==
    InReceiveLoop
    => \A s \in Slots : store[s] = LastDecoded(Delivered, s, StartupStore[s])

-----------------------------------------------------------------------------
(* Wake cycles of the receive loop *)

\* the wake cycle that began when can.read() returned is over: the task is
\* at Timer::after_millis, or it has aborted
WakeOver == pc \in {"delay", "panicked"}

\* the number of items the task has taken since can.read() last returned,
\* the returned one included
TakenSinceWake == taken - wake.t0

\* C11: the N <= RX_BUF_SIZE frames buffered when can.read() returns a
\* frame are all routed in that wake cycle, before the task waits again.
C11_BurstRoutedInOneWake ==
    (wake.ok /\ wake.n <= RX_BUF_SIZE /\ WakeOver)
    => TakenSinceWake >= wake.n

\* The same for the wake cycles the task does not abort in.
BurstRoutedUnlessAborted ==
    (wake.ok /\ wake.n <= RX_BUF_SIZE /\ pc = "delay")
    => TakenSinceWake >= wake.n

-----------------------------------------------------------------------------
(* The receive loop under bus saturation *)

\* the number of frames the saturated bus delivers: the frame can.read()
\* returns, RX_BUF_SIZE frames for the drain and one more
MaxSaturate == 22

\* the frame a saturated bus repeats
SaturateItem == RxOk(Frame(FDCAN_RelPackMtr_t.id, "scenario", 8))

\* the receive interrupt under saturation: a frame arrives whenever the
\* buffer has room
ArriveSaturate ==
    /\ Len(arrived) < MaxSaturate
    /\ Len(rxbuf) < RX_BUF_SIZE
    /\ rxbuf' = Append(rxbuf, SaturateItem)
    /\ arrived' = Append(arrived, SaturateItem)
    /\ UNCHANGED <<store, pc, iter, tx_data, tx_len, sent, cur, drain_i,
                   package, taken, last, aux>>

NextSaturate ==
    \/ ArriveSaturate
    \/ StartupIncrement
    \/ StartupEncode
    \/ StartupWrite
    \/ ReadFrame
    \/ DrainStep
    \/ Delay

SpecSaturate == Init /\ [][NextSaturate]_vars

\* a step of drain_rx_can_buffer: it takes an item or it returns
DrainMove == pc = "drain" /\ (pc' # "drain" \/ taken' # taken)

\* C12: an invocation of drain_rx_can_buffer makes at most RX_BUF_SIZE
\* receive attempts and then returns, whatever arrives meanwhile, and it
\* returns on the first attempt that finds the buffer empty.
C12_DrainBounded ==
    [][/\ drain_i' <= RX_BUF_SIZE
       /\ TakenSinceWake' <= RX_BUF_SIZE + 1
       /\ (DrainMove /\ drain_i = RX_BUF_SIZE)
          => (pc' = "delay" /\ taken' = taken)
       /\ (DrainMove /\ rxbuf = <<>>)
          => (pc' = "delay" /\ taken' = taken)]_vars

\* the drain has returned after RX_BUF_SIZE attempts with frames waiting
C12_Witness ==
    pc = "delay" /\ drain_i = RX_BUF_SIZE /\ rxbuf # <<>>

-----------------------------------------------------------------------------
(* Faults met in the receive loop *)

\* the item the task took last
LastTaken == arrived[taken]

\* the payload of the frame is shorter than its identifier's declared length
Truncated(frame) ==
    /\ frame.id \in MatchedIdSet
    /\ Len(frame.data) < DeclaredBytes(frame.id)

\* C13: no inbound frame stops the pump: after a rejected frame (truncated
\* payload, invalid relay byte) or a bus error the task keeps running.
C13_NoFrameStopsPump ==
    (taken >= 1 /\ (~LastTaken.ok \/ Truncated(LastTaken.frame)
                    \/ LastTaken.frame.id = FDCAN_RELSTATE_ID))
    => pc \in {"read", "drain", "delay"}

\* The same for every item but a relay-state frame without a payload byte.
NoOtherFrameStopsPump ==
    (taken >= 1 /\ ~(/\ LastTaken.ok
                     /\ LastTaken.frame.id = FDCAN_RELSTATE_ID
                     /\ LastTaken.frame.data = <<>>))
    => pc \in {"read", "drain", "delay"}

-----------------------------------------------------------------------------
(* The slot locks of can_receive_task, one step per lock() and per drop *)

\* the number of items the driver delivers in the lock model
MaxLockArrivals == 2

\* the items the driver delivers in the lock model: a motor frame, a
\* truncated one, relay frames (accepted, empty), a foreign frame and a
\* bus error
LockItems ==
    {RxOk(Frame(FDCAN_RelPackMtr_t.id, "scenario", 8)),
     RxOk(Frame(FDCAN_RelPackMtr_t.id, "ramp", 7)),
     RxOk(Frame(FDCAN_RELSTATE_ID, "chrge", 1)),
     RxOk(Frame(FDCAN_RELSTATE_ID, "zero", 0)),
     RxOk(Frame(ForeignId, "ramp", 8)),
     RxErr}

\* a lock on every slot at once in place of one Mutex per slot
CanLock_global(slot) == held = {} /\ others = {}

\* `SLOT.lock().await` returns: the Mutex of the slot is free
CanLock(slot) == slot \notin held /\ slot \notin others

\* the slot whose Mutex the arm of decode_can_frame for id locks
NeededSlot(id) == IF id = FDCAN_RELSTATE_ID THEN "RELAY_STATE" ELSE ArmSlot(id)

ArriveLocks ==
    /\ pc # "panicked"
    /\ Len(arrived) < MaxLockArrivals
    /\ Len(rxbuf) < RX_BUF_SIZE
    /\ \E item \in LockItems :
          /\ rxbuf' = Append(rxbuf, item)
          /\ arrived' = Append(arrived, item)
    /\ UNCHANGED <<store, pc, iter, tx_data, tx_len, sent, cur, drain_i,
                   package, taken, last, aux>>

\* `let mut pack = RELAY_MOTOR_PACK.lock().await;`
StartupLock ==
    /\ pc = "startup_lock"
    /\ iter < STARTUP_ITERATIONS
    /\ CanLock("RELAY_MOTOR_PACK")
    /\ held' = held \cup {"RELAY_MOTOR_PACK"}
    /\ pc' = "startup_locked"
    /\ UNCHANGED <<store, iter, tx_data, tx_len, sent, rxbuf, cur, drain_i,
                   package, arrived, taken, last, others, wake,
                   last_read_ts, delta>>

\* the increment adding two
StartupDrop_by_two ==
    /\ pc = "startup_locked"
    /\ store' = [store EXCEPT !.RELAY_MOTOR_PACK.mtr_volt = @ + 2]
    /\ held' = held \ {"RELAY_MOTOR_PACK"}
    /\ pc' = "startup_encode"
    /\ UNCHANGED <<iter, tx_data, tx_len, sent, rxbuf, cur, drain_i,
                   package, arrived, taken, last, others, wake,
                   last_read_ts, delta>>

\* the increment with the guard kept to the end of the iteration
StartupDrop_kept ==
    /\ pc = "startup_locked"
    /\ store' = [store EXCEPT !.RELAY_MOTOR_PACK.mtr_volt = @ + 1]
    /\ pc' = "startup_encode"
    /\ UNCHANGED <<iter, tx_data, tx_len, sent, rxbuf, cur, drain_i,
                   package, arrived, taken, last, aux>>

\* `pack.mtr_volt += 1; drop(pack);`
StartupDrop ==
    /\ pc = "startup_locked"
    /\ store' = [store EXCEPT !.RELAY_MOTOR_PACK.mtr_volt = @ + 1]
    /\ held' = held \ {"RELAY_MOTOR_PACK"}
    /\ pc' = "startup_encode"
    /\ UNCHANGED <<iter, tx_data, tx_len, sent, rxbuf, cur, drain_i,
                   package, arrived, taken, last, others, wake,
                   last_read_ts, delta>>

\* encode_can_package: `let p = package.lock().await;`
EncodeLock ==
    /\ pc = "startup_encode"
    /\ CanLock("RELAY_MOTOR_PACK")
    /\ held' = held \cup {"RELAY_MOTOR_PACK"}
    /\ pc' = "encode_locked"
    /\ UNCHANGED <<store, iter, tx_data, tx_len, sent, rxbuf, cur, drain_i,
                   package, arrived, taken, last, others, wake,
                   last_read_ts, delta>>

\* encode_can_package: `bincode::encode_into_slice(p.clone(), ...)` and
\* the return, which drops the guard
EncodeReturn ==
    /\ pc = "encode_locked"
    /\ LET r == encode_can_package(SlotPack("RELAY_MOTOR_PACK"),
                                   store.RELAY_MOTOR_PACK, tx_data)
       IN /\ tx_data' = r.data
          /\ tx_len' = IF r.ok THEN r.len ELSE -1
          /\ pc' = IF r.ok THEN "startup_write"
                   ELSE IF iter + 1 = STARTUP_ITERATIONS THEN "read"
                   ELSE "startup_lock"
          /\ iter' = IF r.ok THEN iter ELSE iter + 1
    /\ held' = held \ {"RELAY_MOTOR_PACK"}
    /\ UNCHANGED <<store, sent, rxbuf, cur, drain_i, package, arrived,
                   taken, last, others, wake, last_read_ts, delta>>

\* `can.read().await` returns the oldest item: an envelope goes to
\* process_rx_can_frame, an error is logged
ReadItem ==
    /\ pc = "read"
    /\ rxbuf # <<>>
    /\ rxbuf' = Tail(rxbuf)
    /\ cur' = Head(rxbuf).frame
    /\ taken' = taken + 1
    /\ drain_i' = 0
    /\ wake' = [ok |-> Head(rxbuf).ok, n |-> Len(rxbuf), t0 |-> taken]
    /\ pc' = IF Head(rxbuf).ok THEN "route" ELSE "delay"
    /\ UNCHANGED <<store, iter, tx_data, tx_len, sent, package, arrived,
                   last, held, others, last_read_ts, delta>>

\* decode_can_frame up to the lock() of the matching arm; the arm `_`
\* locks nothing and returns
RouteLock ==
    /\ pc = "route"
    /\ IF cur.id \in MatchedIdSet
       THEN /\ CanLock(NeededSlot(cur.id))
            /\ held' = held \cup {NeededSlot(cur.id)}
            /\ pc' = "route_locked"
            /\ UNCHANGED <<store, last>>
       ELSE /\ Process(cur, "drain")
            /\ UNCHANGED held
    /\ UNCHANGED <<iter, tx_data, tx_len, sent, rxbuf, cur, drain_i,
                   package, arrived, taken, others, wake, last_read_ts,
                   delta>>

\* the rest of the arm: the decode, the assignment through the guard and
\* the return, which drops the guard; a panic halts with the guard alive
RouteStore ==
    /\ pc = "route_locked"
    /\ Process(cur, "drain")
    /\ held' = IF pc' = "panicked" THEN held ELSE held \ {NeededSlot(cur.id)}
    /\ UNCHANGED <<iter, tx_data, tx_len, sent, rxbuf, cur, drain_i,
                   package, arrived, taken, others, wake, last_read_ts,
                   delta>>

\* a drain that goes to the timer after every frame it takes
DrainItem_yielding ==
    /\ pc = "drain"
    /\ IF drain_i < RX_BUF_SIZE /\ rxbuf # <<>>
       THEN /\ rxbuf' = Tail(rxbuf)
            /\ cur' = Head(rxbuf).frame
            /\ taken' = taken + 1
            /\ drain_i' = drain_i + 1
            /\ pc' = "delay"
       ELSE /\ pc' = "delay"
            /\ UNCHANGED <<rxbuf, cur, taken, drain_i>>
    /\ UNCHANGED <<store, iter, tx_data, tx_len, sent, package, arrived,
                   last, aux>>

\* one iteration of the loop of drain_rx_can_buffer up to
\* process_rx_can_frame
DrainItem ==
    /\ pc = "drain"
    /\ IF drain_i < RX_BUF_SIZE /\ rxbuf # <<>>
       THEN /\ rxbuf' = Tail(rxbuf)
            /\ cur' = Head(rxbuf).frame
            /\ taken' = taken + 1
            /\ drain_i' = drain_i + 1
            /\ pc' = IF Head(rxbuf).ok THEN "route" ELSE "drain"
       ELSE /\ pc' = "delay"
            /\ UNCHANGED <<rxbuf, cur, taken, drain_i>>
    /\ UNCHANGED <<store, iter, tx_data, tx_len, sent, package, arrived,
                   last, aux>>

NextLocks ==
    \/ ArriveLocks
    \/ StartupLock
    \/ StartupDrop
    \/ EncodeLock
    \/ EncodeReturn
    \/ StartupWrite
    \/ ReadItem
    \/ RouteLock
    \/ RouteStore
    \/ DrainItem
    \/ Delay

SpecLocks == Init /\ [][NextLocks]_vars

\* the task is at a suspension point: can.read(), can.write(), the timer,
\* or a lock() it is about to call
AtSuspensionPoint ==
    pc \in {"read", "startup_write", "delay",
            "startup_lock", "startup_encode", "route"}

\* C14: the task holds at most one slot lock, and none at a suspension
\* point (waiting for a frame, on can.write, on the timer, or acquiring
\* a lock).
C14_OneLockNoneAcrossAwait ==
    /\ Cardinality(held) <= 1
    /\ AtSuspensionPoint => held = {}

\* the router holds the lock of RELAY_STATE between lock() and the return,
\* and the startup loop has held and released the lock of the motor pack
C14_Witness ==
    /\ pc = "route_locked"
    /\ held = {"RELAY_STATE"}
    /\ iter = STARTUP_ITERATIONS

-----------------------------------------------------------------------------
(* Who writes the slots *)

\* the identifier whose frames are decoded into slot s
SlotId(s) == IF s = "RELAY_STATE" THEN FDCAN_RELSTATE_ID ELSE SlotPack(s).id

\* the step is the router decoding a received frame for slot s with Ok
RouterWrites(s) ==
    /\ taken' = taken + 1
    /\ cur'.id = SlotId(s)
    /\ last'.frame = cur'
    /\ last'.result = "Ok"

\* C15: every slot starts at its record's default (RELAY_STATE at standby)
\* and changes only when the router decodes a received frame for the slot's
\* identifier; no other step of can_receive_task changes a slot.
C15_OnlyRouterWrites ==
    /\ store = InitStore
    /\ [][\A s \in Slots : store'[s] # store[s] => RouterWrites(s)]_vars

\* The same for the steps of the receive loop.
OnlyRouterWritesInReceiveLoop ==
    /\ store = InitStore
    /\ [][InReceiveLoop =>
            \A s \in Slots : store'[s] # store[s] => RouterWrites(s)]_vars

-----------------------------------------------------------------------------
(* The slot locks with other tasks reading the slots *)

\* the number of slot locks other tasks hold at a time
MaxReaders == 1

\* can_receive_task waits for the Mutex of a slot another task holds
PumpBlocked ==
    \/ pc \in {"startup_lock", "startup_encode"}
       /\ ~CanLock("RELAY_MOTOR_PACK")
    \/ pc = "route" /\ cur.id \in MatchedIdSet
       /\ ~CanLock(NeededSlot(cur.id))

\* the executor can run another task: can_receive_task is suspended
PumpSuspended ==
    pc \in {"read", "startup_write", "delay"} \/ PumpBlocked

\* another task locks slot s, and keeps the guard while it is suspended
ReaderLock ==
    /\ PumpSuspended
    /\ Cardinality(others) < MaxReaders
    /\ \E s \in Slots :
          /\ s \notin held
          /\ s \notin others
          /\ others' = others \cup {s}
    /\ UNCHANGED <<store, pc, iter, tx_data, tx_len, sent, rxbuf, cur,
                   drain_i, package, arrived, taken, last, held, wake,
                   last_read_ts, delta>>

\* the other task drops its guard
ReaderDrop ==
    /\ PumpSuspended
    /\ \E s \in others : others' = others \ {s}
    /\ UNCHANGED <<store, pc, iter, tx_data, tx_len, sent, rxbuf, cur,
                   drain_i, package, arrived, taken, last, held, wake,
                   last_read_ts, delta>>

NextContend ==
    \/ NextLocks
    \/ ReaderLock
    \/ ReaderDrop

SpecContend == Init /\ [][NextContend]_vars

\* can_receive_task is about to call lock() on a slot
AtAcquire ==
    \/ pc \in {"startup_lock", "startup_encode"}
    \/ pc = "route" /\ cur.id \in MatchedIdSet

\* the slot it is about to lock
SlotToAcquire ==
    IF pc = "route" THEN NeededSlot(cur.id) ELSE "RELAY_MOTOR_PACK"

\* C16: each slot has its own mutex: an operation that needs slot A does
\* not wait because another slot is locked, and the value of a slot a
\* reader holds locked is not changed by a write to another slot.
C16_PerSlotMutex ==
    [][/\ (AtAcquire /\ SlotToAcquire \notin others)
          => ENABLED (StartupLock \/ EncodeLock \/ RouteLock)
       /\ \A a \in others : store'[a] = store[a]]_vars

\* can_receive_task has acquired the lock of one slot while another task
\* holds the lock of another slot
C16_Witness ==
    /\ held # {} /\ others # {} /\ held \cap others = {}
    /\ pc = "route_locked"

-----------------------------------------------------------------------------
(* The values a slot can hold *)

\* the value the router stores in slot s for an item that decodes for it
DecodeOf(item, s) ==
    IF s = "RELAY_STATE" THEN item.frame.data[1]
    ELSE RecordAt(SlotPack(s), item.frame.data)

\* value v is the complete decode of one of the frames routed so far
DecodeOfRoutedFrame(v, s) ==
    \E k \in 1..taken :
        DecodesFor(arrived[k], s) /\ v = DecodeOf(arrived[k], s)

\* C17: the value a task finds in a slot is a whole record: the slot's
\* initial value or the complete decode of a single routed frame.
C17_WholeRecords ==
    \A s \in Slots :
        store[s] = InitStore[s] \/ DecodeOfRoutedFrame(store[s], s)

\* The same in the receive loop, with the value the slot holds when the
\* loop starts in place of its initial value.
WholeRecordsSinceStartup ==
    InReceiveLoop
    => \A s \in Slots :
           store[s] = StartupStore[s] \/ DecodeOfRoutedFrame(store[s], s)

-----------------------------------------------------------------------------
(* can_task of main.rs: the time between two frames *)

\* the largest timestamp, in ticks of embassy_time
MaxTs == 15

\* the timestamps of the model
Instants == 0..MaxTs

\* `ts - last_read_ts` on embassy_time::Instant: duration_since, which
\* unwraps the checked subtraction of the ticks and panics when ts is the
\* earlier of the two
Instant_sub(ts, earlier) ==
    IF ts >= earlier
    THEN [panic |-> FALSE, ticks |-> ts - earlier]
    ELSE [panic |-> TRUE,  ticks |-> 0]

\* `let mut last_read_ts = embassy_time::Instant::now();`
InitLatency ==
    /\ pc = "can_read"
    /\ last_read_ts \in Instants
    /\ delta = 0
    /\ store = InitStore
    /\ iter = 0 /\ tx_data = InitTxData /\ tx_len = 0 /\ sent = <<>>
    /\ rxbuf = <<>> /\ cur = NoFrame /\ drain_i = 0 /\ package = NoPackage
    /\ arrived = <<>> /\ taken = 0 /\ last = NoLast
    /\ held = {} /\ others = {} /\ wake = NoWake

\* `Ok(envelope)`: `let delta = (ts - last_read_ts).as_millis();
\* last_read_ts = ts;`  delta is kept in ticks: as_millis() scales it by
\* the tick rate
CanTaskFrame ==
    /\ pc = "can_read"
    /\ \E ts \in Instants :
          LET d == Instant_sub(ts, last_read_ts)
          IN IF d.panic
             THEN /\ pc' = "panicked"
                  /\ UNCHANGED <<last_read_ts, delta>>
             ELSE /\ delta' = d.ticks
                  /\ last_read_ts' = ts
                  /\ pc' = "can_delay"
    /\ UNCHANGED <<store, iter, tx_data, tx_len, sent, rxbuf, cur, drain_i,
                   package, arrived, taken, last, held, others, wake>>

\* `Err(err) => error!("Error in frame: {}", err)`
CanTaskError ==
    /\ pc = "can_read"
    /\ pc' = "can_delay"
    /\ UNCHANGED <<store, iter, tx_data, tx_len, sent, rxbuf, cur, drain_i,
                   package, arrived, taken, last, aux>>

\* `Timer::after_millis(1).await`
CanTaskDelay ==
    /\ pc = "can_delay"
    /\ pc' = "can_read"
    /\ UNCHANGED <<store, iter, tx_data, tx_len, sent, rxbuf, cur, drain_i,
                   package, arrived, taken, last, aux>>

NextLatency ==
    \/ CanTaskFrame
    \/ CanTaskError
    \/ CanTaskDelay

SpecLatency == InitLatency /\ [][NextLatency]_vars

\* C18: the time between two frames computed by can_task is never negative
\* or overflowed and computing it never aborts the task: for a frame whose
\* timestamp is earlier than the stored one the delta is clamped to zero
\* (or marked unknown).
C18_DeltaClampedNoAbort ==
    /\ pc # "panicked"
    /\ delta \in 0..MaxTs

\* The part that holds: a delta that is computed is not negative.
DeltaNotNegative == delta \in 0..MaxTs

-----------------------------------------------------------------------------
(* The catalog of eco_can.rs *)

\* the catalog entries whose identifier is id
EntriesWithId(id) ==
    {t \in PackTypes : FDCANPack[t].id = id}
    \cup (IF id = FDCAN_RELSTATE_ID THEN {"RelayState"} ELSE {})

\* C19: no two catalog entries (the FDCANPack impls and the relay-state
\* identifier) share an identifier, and every declared byte length is a
\* CAN-FD payload size.
C19_CatalogWellFormed ==
    /\ \A id \in CatalogIds : Cardinality(EntriesWithId(id)) = 1
    /\ Cardinality(CatalogIds) = Cardinality(PackTypes) + 1
    /\ \A t \in PackTypes : FDCANPack[t].bytes \in FDCANLength
    /\ RELSTATE_BYTES \in FDCANLength
    /\ (Routed /\ RoutedId \in CatalogIds)
       => DeclaredBytes(RoutedId) \in FDCANLength

\* a frame of the longest catalog entry has been routed and decoded
C19_Witness ==
    /\ Routed
    /\ RoutedId = FDCAN_FetPack_t.id
    /\ Len(RoutedData) = DeclaredBytes(RoutedId)
    /\ last.result = "Ok"

-----------------------------------------------------------------------------
(* The frames can_receive_task transmits *)

\* the record type of the slot the task encodes into its frames:
\* `encode_can_package(&RELAY_MOTOR_PACK, &mut tx_data)`
EncodedPack == SlotPack("RELAY_MOTOR_PACK")

\* C20: every transmitted frame carries the identifier of the descriptor
\* whose slot was encoded into its payload (0x015 for RELAY_MOTOR_PACK) and
\* a payload of that descriptor's declared length.
C20_SentFrameMatchesDescriptor ==
    \A k \in 1..Len(sent) :
        /\ sent[k].id = EncodedPack.id
        /\ Len(sent[k].data) = EncodedPack.bytes

\* The part that holds: the payload has the declared length of the encoded
\* record and decodes to a motor pack.
SentPayloadMatchesDescriptor ==
    \A k \in 1..Len(sent) :
        /\ Len(sent[k].data) = EncodedPack.bytes
        /\ RecordAt(EncodedPack, sent[k].data)
             = [mtr_volt |-> k, mtr_curr |-> 0]

-----------------------------------------------------------------------------
(* The drain phase of a wake cycle *)

\* the task is between can.read() returning a frame and the return of
\* drain_rx_can_buffer
InDrainPhase == pc \in {"route", "route_locked", "drain"}

-----------------------------------------------------------------------------
(* What follows the drain *)

\* the step is the return of drain_rx_can_buffer
DrainReturns == pc = "drain" /\ pc' \notin {"drain", "panicked"}

-----------------------------------------------------------------------------
(* The receive loop under bus errors and saturation *)

\* the number of items the driver delivers: a bus error, a frame for
\* can.read(), RX_BUF_SIZE frames for the drain, and a bus error
MaxStorm == 23

\* the positions in the delivered sequence that are bus errors
StormErrorAt == {1, MaxStorm}

\* the receive interrupt on a saturated bus with errors: an item arrives
\* whenever the buffer has room
ArriveStorm ==
    /\ Len(arrived) < MaxStorm
    /\ Len(rxbuf) < RX_BUF_SIZE
    /\ LET item == IF Len(arrived) + 1 \in StormErrorAt THEN RxErr
                   ELSE SaturateItem
       IN /\ rxbuf' = Append(rxbuf, item)
          /\ arrived' = Append(arrived, item)
    /\ UNCHANGED <<store, pc, iter, tx_data, tx_len, sent, cur, drain_i,
                   package, taken, last, aux>>

NextStorm ==
    \/ ArriveStorm
    \/ StartupIncrement
    \/ StartupEncode
    \/ StartupWrite
    \/ ReadFrame
    \/ DrainStep
    \/ Delay

SpecStorm == Init /\ [][NextStorm]_vars

\* C23: every iteration of the receive loop passes through a suspension
\* point: the task comes back to can.read() only from the timer, also
\* when the read returned a bus error and when the drain was cut short by
\* its bound.
C23_EveryIterationSuspends ==
    [][/\ (InReceiveLoop /\ pc' = "read")
          => (pc = "delay" \/ (pc = "read" /\ taken' = taken))
       /\ (pc = "read" /\ taken' # taken)
          => pc' \in {"drain", "delay", "panicked"}
       /\ DrainReturns => pc' = "delay"]_vars

\* can.read() returned a bus error in the first iteration, the drain of
\* the second made RX_BUF_SIZE attempts, and the task is at the timer
C23_Witness ==
    /\ pc = "delay"
    /\ ~arrived[1].ok
    /\ drain_i = RX_BUF_SIZE
    /\ taken = RX_BUF_SIZE + 2

-----------------------------------------------------------------------------
(* Rejected relay bytes and decode faults *)

\* the frames for a pack identifier whose payload is too short
TruncatedPackFrames == {f \in Frames : f.id \in PackArmIds /\ Truncated(f)}

\* the routed frame is a relay-state frame whose byte is no enumerated
\* pattern
InvalidRelayRouted ==
    /\ Routed
    /\ RoutedId = FDCAN_RELSTATE_ID
    /\ RoutedData # <<>>
    /\ RoutedData[1] \notin RelayState

\* C24: the outcome of a relay-state frame with an invalid byte differs
\* from the outcome of a truncated payload, both in the value
\* decode_can_frame returns and in what process_rx_can_frame reports.
C24_InvalidRelayDistinguishable ==
    InvalidRelayRouted
    => \A f \in TruncatedPackFrames :
          LET r == process_rx_can_frame(last.pre, last.frame)
              t == process_rx_can_frame(last.pre, f)
          IN /\ [result |-> r.result, err |-> r.err]
                  # [result |-> t.result, err |-> t.err]
             /\ r.logged # t.logged

\* The part that holds: both are Err, and the errors returned differ.
InvalidRelayReturnsOtherError ==
    InvalidRelayRouted
    => \A f \in TruncatedPackFrames :
          LET r == process_rx_can_frame(last.pre, last.frame)
              t == process_rx_can_frame(last.pre, f)
          IN r.result = "Err" /\ t.result = "Err" /\ r.err # t.err

-----------------------------------------------------------------------------
(* Progress of the startup loop *)

\* the executor runs can_receive_task whenever it can go on: a lock() on a
\* free Mutex returns, can.write() completes, and can.read() returns when
\* the buffer holds an item
FairLocks ==
    /\ WF_vars(StartupLock)
    /\ WF_vars(StartupDrop)
    /\ WF_vars(EncodeLock)
    /\ WF_vars(EncodeReturn)
    /\ WF_vars(StartupWrite)
    /\ WF_vars(ReadItem)

\* the number of frames the driver delivers while the startup loop and the
\* first wake cycles are followed
MaxStartupArrivals == 2

ArriveStartup ==
    /\ Len(arrived) < MaxStartupArrivals
    /\ Len(rxbuf) < RX_BUF_SIZE
    /\ rxbuf' = Append(rxbuf, SaturateItem)
    /\ arrived' = Append(arrived, SaturateItem)
    /\ UNCHANGED <<store, pc, iter, tx_data, tx_len, sent, cur, drain_i,
                   package, taken, last, aux>>

NextStartup ==
    \/ ArriveStartup
    \/ StartupLock
    \/ StartupDrop
    \/ EncodeLock
    \/ EncodeReturn
    \/ StartupWrite
    \/ ReadItem
    \/ RouteLock
    \/ RouteStore
    \/ DrainItem
    \/ Delay

FairSpecStartup == Init /\ [][NextStartup]_vars /\ FairLocks

\* C25: the startup loop does not deadlock on RELAY_MOTOR_PACK: its guard
\* is dropped before encode_can_package locks the same Mutex, so the task
\* reaches the receive loop and takes the frames that arrive.
C25_StartupReachesReceiveLoop ==
    /\ [](pc = "startup_encode" => CanLock("RELAY_MOTOR_PACK"))
    /\ <>(pc = "read" /\ iter = STARTUP_ITERATIONS)
    /\ (rxbuf # <<>>) ~> (taken >= 1)

\* the forty iterations are over, no guard is held and the first frame
\* has been routed
C25_Witness ==
    /\ iter = STARTUP_ITERATIONS
    /\ Len(sent) = STARTUP_ITERATIONS
    /\ held = {}
    /\ pc = "drain"
    /\ last.n = 1

-----------------------------------------------------------------------------
(* What the startup loop leaves behind *)

\* C26: the startup loop queues exactly 40 frames before the first inbound
\* frame is read, the k-th encoding mtr_volt = k with mtr_curr unchanged,
\* and when the receive loop starts mtr_volt of RELAY_MOTOR_PACK is 40 and
\* every other slot holds its initial value.
C26_StartupFrames ==
    /\ Len(sent) = iter
    /\ Len(sent) <= STARTUP_ITERATIONS
    /\ (InReceiveLoop \/ taken >= 1) => Len(sent) = STARTUP_ITERATIONS
    /\ \A k \in 1..Len(sent) :
          decode_from_slice(FDCAN_RelPackMtr_t, sent[k].data).val
             = [mtr_volt |-> k,
                mtr_curr |-> InitStore.RELAY_MOTOR_PACK.mtr_curr]
    /\ (pc = "read" /\ taken = 0)
       => /\ store.RELAY_MOTOR_PACK.mtr_volt = STARTUP_ITERATIONS
          /\ \A sl \in Slots \ {"RELAY_MOTOR_PACK"} : store[sl] = InitStore[sl]
          /\ store.RELAY_MOTOR_PACK.mtr_curr
               = InitStore.RELAY_MOTOR_PACK.mtr_curr

\* the receive loop starts: forty frames are queued and a frame that
\* arrived during the startup loop waits unread
C26_Witness ==
    /\ pc = "read"
    /\ taken = 0
    /\ Len(sent) = STARTUP_ITERATIONS
    /\ rxbuf # <<>>

-----------------------------------------------------------------------------
(* The slots a routed frame leaves alone *)

\* C27: routing a frame whose identifier matches a descriptor changes at
\* most that descriptor's slot: every other slot holds the value it held
\* before, whether the frame was accepted or rejected.
C27_OtherSlotsUnchanged ==
    (Routed /\ RoutedId \in MatchedIdSet)
    => /\ \A s \in Slots \ {SlotOf(RoutedId)} : store[s] = last.pre[s]
       /\ last.result # "Ok" => store = last.pre

\* a motor frame has been accepted into a store whose other slots hold
\* values of their own
C27_Witness ==
    /\ Routed
    /\ RoutedId = FDCAN_RelPackMtr_t.id
    /\ last.result = "Ok"
    /\ store.RELAY_MOTOR_PACK # last.pre.RELAY_MOTOR_PACK
    /\ store.RELAY_STATE # InitStore.RELAY_STATE
    /\ store.FET_DATA # InitStore.FET_DATA

====
